---------------------------- MODULE Spec2Model ----------------------------
(***************************************************************************)
(* A model of ncm_crack.py: the NCM container decryptor (NCMDecryptor) and *)
(* the batch converter (BatchConverter).                                   *)
(*                                                                         *)
(* Three specifications share the module:                                  *)
(*   SpecKeyBox  the loop of NCMDecryptor._build_key_box, one iteration    *)
(*               per step, over real 256-entry boxes;                      *)
(*   SpecStream  the chunked decryption loop of NCMDecryptor.decrypt over  *)
(*               real byte sequences and the real CHUNK_SIZE;              *)
(*   Spec        BatchConverter.convert_all: the worker pool, the jobs     *)
(*               (_convert_single_file, _copy_single_file, with the steps  *)
(*               of NCMDecryptor.decrypt that touch the output tree) and   *)
(*               the tally of the results, run twice over the same tree.   *)
(***************************************************************************)
EXTENDS Integers, Sequences, FiniteSets, TLC

VARIABLES
    \* ---- NCMDecryptor._build_key_box (SpecKeyBox)
    key_data,      \* the key blob, a sequence of bytes
    key_box,       \* the box under construction, a function on 0..255
    i,             \* the loop variable of the for loop, 0..256
    last_byte,
    key_offset,
    \* ---- the decryption loop of NCMDecryptor.decrypt (SpecStream)
    plain,         \* the plaintext the payload was made from (ghost)
    payload,       \* the encrypted audio payload, the rest of the file
    full_mask,     \* _create_decryption_mask()
    f_pos,         \* the read position in the payload
    out,           \* the bytes written to the temporary file
    first_chunk,
    actual_format,
    st_pc,         \* "idle", "loop", "closed" or "raised"
    \* ---- BatchConverter.convert_all (Spec)
    files,         \* the files of the input tree, in the order rglob gives
    overwrite,     \* self.overwrite
    max_workers,
    run,           \* the number of calls of convert_all so far
    pc,            \* convert_all: "idle", "wait", "returned" or "raised"
    futures,       \* the list "futures": [type, file] in submission order
    queue,         \* the futures no worker has taken yet, oldest first
    job,           \* per future: the locals of the job and its result
    fs,            \* the files of the output tree: path -> content
    sub,           \* the output subdirectory: "absent", "dir" or "file"
    stats,         \* the dictionary "stats"
    tallied,       \* the futures the result loop has counted
    fs0,           \* fs and sub when the current call began (ghost)
    sub0,
    stats1         \* what the first call returned (ghost)

kbVars == <<key_data, key_box, i, last_byte, key_offset>>
stVars == <<plain, payload, full_mask, f_pos, out, first_chunk, actual_format, st_pc>>
batchVars == <<files, overwrite, max_workers, run, pc, futures, queue, job,
               fs, sub, stats, tallied, fs0, sub0, stats1>>
vars == <<kbVars, stVars, batchVars>>

-----------------------------------------------------------------------------
(* Bytes *)

Min(a, b) == IF a <= b THEN a ELSE b

Max(a, b) == IF a >= b THEN a ELSE b

\* a ^ b on non-negative integers, bit by bit
RECURSIVE XorBits(_, _)
XorBits(a, b) ==
    IF a = 0 THEN b
    ELSE IF b = 0 THEN a
    ELSE (((a % 2) + (b % 2)) % 2) + 2 * XorBits(a \div 2, b \div 2)

\* a ^ b on half bytes, tabulated
XorTable == [a \in 0..15 |-> [b \in 0..15 |-> XorBits(a, b)]]

\* a ^ b on bytes: the high and the low half byte
Xor(a, b) ==
    16 * XorTable[a \div 16][b \div 16] + XorTable[a % 16][b % 16]

\* a & b on non-negative integers
RECURSIVE BitAnd(_, _)
BitAnd(a, b) ==
    IF a = 0 \/ b = 0 THEN 0
    ELSE ((a % 2) * (b % 2)) + 2 * BitAnd(a \div 2, b \div 2)

\* data[:n]
Take(s, n) == SubSeq(s, 1, Min(n, Len(s)))

\* data.startswith(prefix)
StartsWith(s, prefix) ==
    Len(s) >= Len(prefix) /\ SubSeq(s, 1, Len(prefix)) = prefix

-----------------------------------------------------------------------------
(* Program constants *)

CHUNK_SIZE == 32768

BoxSize == 256

\* The number of bytes a key blob of the model may have, and the byte
\* values it is made of.
MaxKeyLen == 2

KeyBytes == {0, 1, 100, 255}

KeyBlobs == UNION {[1..n -> KeyBytes] : n \in 1..MaxKeyLen}

-----------------------------------------------------------------------------
(* NCMDecryptor._build_key_box *)

\* bytearray(range(256))
IdentityBox == [k \in 0..(BoxSize - 1) |-> k]

\* key_box[i], key_box[c] = key_box[c], swap
\* The right side is evaluated first, then key_box[i], then key_box[c].
SwapLosesValue(box, idx, c, swap) ==
    [box EXCEPT ![idx] = box[c], ![c] = box[c]]

SwapBox(box, idx, c, swap) ==
    [[box EXCEPT ![idx] = box[c]] EXCEPT ![c] = swap]

\* One iteration of the for loop on the record of the loop's variables.
KeyBoxIter(st, key) ==
    LET swap == st.box[st.i]
        \* key_data is indexed from 0 in the program, from 1 here
        c == BitAnd(swap + st.last + key[st.off + 1], 255)
    IN  [box  |-> SwapBox(st.box, st.i, c, swap),
         i    |-> st.i + 1,
         last |-> c,
         off  |-> (st.off + 1) % Len(key)]

\* n >= 1 iterations of the loop: the first half, then the rest from the
\* state the first half ends in (bound as a value, so that the iterations
\* are computed in order).
RECURSIVE KeyBoxLoop(_, _, _)
KeyBoxLoop(st, key, n) ==
    IF n = 1 THEN KeyBoxIter(st, key)
    ELSE CHOOSE r \in {KeyBoxLoop(mid, key, n - (n \div 2)) :
                          mid \in {KeyBoxLoop(st, key, n \div 2)}} : TRUE

\* The whole function: "for i in range(256)", then "return key_box".
BuildKeyBox(key) ==
    KeyBoxLoop([box |-> IdentityBox, i |-> 0, last |-> 0, off |-> 0],
               key, BoxSize).box

IsPermutation(box) ==
    /\ DOMAIN box = 0..(BoxSize - 1)
    /\ {box[k] : k \in DOMAIN box} = 0..(BoxSize - 1)

KeyBoxIdle ==
    /\ key_data = <<>>
    /\ key_box = <<>>
    /\ i = 0
    /\ last_byte = 0
    /\ key_offset = 0

\* The state on entry to the for loop, for every key blob of the model.
InitKeyBox ==
    /\ key_data \in KeyBlobs
    /\ key_box = IdentityBox
    /\ i = 0
    /\ last_byte = 0
    /\ key_offset = 0

\* One iteration of "for i in range(256)".
BuildKeyBoxStep ==
    /\ key_data # <<>>
    /\ i < BoxSize
    /\ LET st == KeyBoxIter([box |-> key_box, i |-> i, last |-> last_byte,
                             off |-> key_offset], key_data)
       IN  /\ key_box' = st.box
           /\ i' = st.i
           /\ last_byte' = st.last
           /\ key_offset' = st.off
    /\ UNCHANGED <<key_data, stVars, batchVars>>


NextKeyBox == BuildKeyBoxStep

-----------------------------------------------------------------------------
(* detect_audio_format *)

fLaC == <<102, 76, 97, 67>>

ID3 == <<73, 68, 51>>

DetectAudioFormat(data) ==
    IF Len(data) >= 4 /\ StartsWith(data, fLaC) THEN "flac"
    ELSE IF Len(data) >= 3 /\ StartsWith(data, ID3) THEN "mp3"
    ELSE IF Len(data) >= 2 /\ data[1] = 255 /\ BitAnd(data[2], 224) = 224
         THEN "mp3"
    ELSE "mp3"

-----------------------------------------------------------------------------
(* NCMDecryptor._create_decryption_mask and the loop of decrypt *)

\* The 256 bytes of the for loop: mask[i], i in 0..255.
BaseMask(box) ==
    [k \in 0..255 |->
        LET j == BitAnd(k + 1, 255)
        IN  box[BitAnd(box[j] + box[BitAnd(box[j] + j, 255)], 255)]]

\* bytes(mask) * n, a sequence indexed from 1
Tile(m, n) == [p \in 1..(256 * n) |-> m[(p - 1) % 256]]

\* bytes(mask) * (CHUNK_SIZE // 256)
CreateDecryptionMask(box) == Tile(BaseMask(box), CHUNK_SIZE \div 256)

\* f.read(n) at position pos of data: the bytes left, n at most
Read(data, pos, n) == SubSeq(data, pos + 1, Min(pos + n, Len(data)))

\* strxor(a, b): raises on operands of different lengths (ok is FALSE)
Strxor(a, b) ==
    IF Len(a) # Len(b) THEN [ok |-> FALSE, data |-> <<>>]
    ELSE [ok |-> TRUE, data |-> [p \in 1..Len(a) |-> Xor(a[p], b[p])]]

\* strxor(chunk, full_mask[:chunk_len])
DecryptChunkShifted(chunk, mask) ==
    Strxor(chunk, SubSeq(mask, 2, Min(Len(chunk) + 1, Len(mask))))

DecryptChunk(chunk, mask) == Strxor(chunk, Take(mask, Len(chunk)))

\* The keystream as the container format defines it: the byte at offset p
\* (from 0) of the payload is XORed with byte p mod 256 of the base mask.
KeystreamOf(m, data) == [p \in 1..Len(data) |-> Xor(data[p], m[(p - 1) % 256])]

Keystream(box, data) == KeystreamOf(BaseMask(box), data)

\* The payloads of the model: a few leading bytes, then a filler that
\* changes with the offset.
Heads == {<<>>, fLaC, <<255, 224>>}

PayloadLengths ==
    {0, 1, 255, 256, 257, CHUNK_SIZE, CHUNK_SIZE + 257}

Plaintext(head, n) ==
    [p \in 1..n |-> IF p <= Len(head) THEN head[p] ELSE ((p * 37) + 11) % 256]

StreamKeys == {<<1>>, <<100, 255>>}

StreamIdle ==
    /\ plain = <<>>
    /\ payload = <<>>
    /\ full_mask = <<>>
    /\ f_pos = 0
    /\ out = <<>>
    /\ first_chunk = TRUE
    /\ actual_format = "mp3"
    /\ st_pc = "idle"

\* decrypt at "with open(temp_path, "wb") as out": the header is read,
\* the key box is built, the mask is made, the temporary file is empty.
\* actual_format holds self.metadata.get("format", "mp3").
InitStream ==
    /\ \E key \in StreamKeys, head \in Heads, n \in PayloadLengths :
          \E box \in {BuildKeyBox(key)} :
              /\ plain = Plaintext(head, n)
              /\ payload = Keystream(box, plain)
              /\ full_mask = CreateDecryptionMask(box)
    /\ f_pos = 0
    /\ out = <<>>
    /\ first_chunk = TRUE
    /\ actual_format \in {"mp3", "flac"}
    /\ st_pc = "loop"

\* One iteration of "while True": read, decrypt, sniff, write.
DecryptLoopStep ==
    /\ st_pc = "loop"
    /\ \E chunk \in {Read(payload, f_pos, CHUNK_SIZE)} :
          IF chunk = <<>>
          THEN /\ st_pc' = "closed"
               /\ UNCHANGED <<f_pos, out, first_chunk, actual_format>>
          ELSE \E decrypted \in {DecryptChunk(chunk, full_mask)} :
                  /\ f_pos' = f_pos + Len(chunk)
                  /\ IF decrypted.ok
                     THEN /\ actual_format' =
                                IF first_chunk
                                THEN DetectAudioFormat(decrypted.data)
                                ELSE actual_format
                          /\ first_chunk' = FALSE
                          /\ out' = out \o decrypted.data
                          /\ UNCHANGED st_pc
                     ELSE /\ st_pc' = "raised"
                          /\ UNCHANGED <<out, first_chunk, actual_format>>
    /\ UNCHANGED <<plain, payload, full_mask, kbVars, batchVars>>

NextStream == DecryptLoopStep

-----------------------------------------------------------------------------
(* pathlib: a file name is the sequence of its parts between dots, so     *)
(* "a.b.ncm" is <<"a", "b", "ncm">>; a path of the output tree is a        *)
(* directory and a name.                                                   *)

\* PurePath.suffix, without the dot
Suffix(name) == IF Len(name) > 1 THEN name[Len(name)] ELSE ""

\* PurePath.stem
Stem(name) == IF Len(name) > 1 THEN SubSeq(name, 1, Len(name) - 1) ELSE name

\* PurePath.with_suffix("." + ext): the last suffix, when there is one, is
\* replaced; otherwise ext is added.
WithSuffix(name, ext) == Stem(name) \o <<ext>>

\* f"{base_name}.{ext}"
AddSuffix(name, ext) == name \o <<ext>>

\* str.lower on the suffixes of the model
Lower(str) == IF str = "NCM" THEN "ncm" ELSE str

Path(dir, name) == [dir |-> dir, name |-> name]

-----------------------------------------------------------------------------
(* The container file, as the parser sees it: its size, the three length   *)
(* fields, and what the blobs hold.                                        *)
(*   magic    the first 8 bytes are the NCM header                         *)
(*   keyOK    the key blob decrypts to a non-empty key                     *)
(*   metaOK   the metadata blob decodes to a JSON object with fields       *)
(*   format   the "format" field of the metadata ("none": no such field)   *)
(*   head     the first decoded bytes of the audio payload, 4 at most      *)
(*   tagErr   set_audio_metadata raises on the metadata ("albumPic" is not *)
(*            a string)                                                    *)
(*   locked   the number of attempts in which opening the input fails      *)
(*   ioErr    the number of attempts in which the read of a chunk after    *)
(*            the first one fails (OSError)                                *)

NoContainer ==
    [magic |-> FALSE, size |-> 0, keyLen |-> 0, metaLen |-> 0, imgLen |-> 0,
     keyOK |-> FALSE, metaOK |-> FALSE, format |-> "none", head |-> <<>>,
     tagErr |-> FALSE, locked |-> 0, ioErr |-> 0]

\* The offset of the audio payload that the length fields imply:
\* 8 magic, 2 skipped, 4 + key, 4 + metadata, 4 CRC, 5 skipped, 4 + image.
PayloadStart(c) == 8 + 2 + 4 + c.keyLen + 4 + c.metaLen + 4 + 5 + 4 + c.imgLen

\* A well-formed container with n bytes of payload.
Container(format, head, n) ==
    [magic |-> TRUE, size |-> 8 + 2 + 4 + 128 + 4 + 64 + 4 + 5 + 4 + 16 + n,
     keyLen |-> 128, metaLen |-> 64, imgLen |-> 16,
     keyOK |-> TRUE, metaOK |-> TRUE, format |-> format, head |-> Take(head, n),
     tagErr |-> FALSE, locked |-> 0, ioErr |-> 0]

\* len(file.read(n)) at position pos: a read past the end is short
ReadLen(c, pos, n) == Max(0, Min(n, c.size - pos))

Raise == [ok |-> FALSE, pos |-> 0]

\* NCMDecryptor._read_key_data followed by _build_key_box, from position pos
ReadKeyData(c, pos) ==
    LET lenAt == pos + 2                          \* file.seek(2, 1)
        keyAt == lenAt + ReadLen(c, lenAt, 4)
        got   == ReadLen(c, keyAt, c.keyLen)      \* file.read(key_length)
    IN  IF ReadLen(c, lenAt, 4) < 4 THEN Raise    \* struct.unpack
        ELSE IF got % 16 # 0 THEN Raise           \* cipher.decrypt
        ELSE IF got = 0 THEN Raise                \* unpad: data[-1]
        ELSE IF ~c.keyOK THEN Raise               \* key_data[key_offset]
        ELSE [ok |-> TRUE, pos |-> keyAt + got]

\* NCMDecryptor._read_metadata, from position pos.  A blob cut short by the
\* end of the file is taken not to decode.
ReadMetadata(c, pos) ==
    LET metaAt == pos + ReadLen(c, pos, 4)
        got    == ReadLen(c, metaAt, c.metaLen)   \* file.read(meta_length)
    IN  IF ReadLen(c, pos, 4) < 4 THEN Raise      \* struct.unpack
        ELSE IF got = 0 THEN Raise                \* unpad: data[-1]
        ELSE IF got < c.metaLen \/ ~c.metaOK THEN Raise
        ELSE [ok |-> TRUE, pos |-> metaAt + got]

\* NCMDecryptor._skip_image_data, from position pos: seek moves the
\* position by the length it is given, past the end of the file too.
SkipImageData(c, pos) ==
    LET lenAt == pos + ReadLen(c, pos, 4) + 5     \* file.read(4); seek(5, 1)
    IN  IF ReadLen(c, lenAt, 4) < 4 THEN Raise    \* struct.unpack
        ELSE [ok |-> TRUE, pos |-> lenAt + 4 + c.imgLen]

\* decrypt from the open of the input to the making of the mask: whether
\* it gets there, and the position the payload is then read from.
ParseHeader(c) ==
    IF ReadLen(c, 0, 8) < 8 \/ ~c.magic THEN Raise    \* ValueError
    ELSE LET k == ReadKeyData(c, 8)
         IN  IF ~k.ok THEN Raise
             ELSE LET m == ReadMetadata(c, k.pos)
                  IN  IF ~m.ok THEN Raise
                      ELSE SkipImageData(c, m.pos)

\* self.metadata.get("format", "mp3")
MetadataFormat(c) == IF c.format = "none" THEN "mp3" ELSE c.format

\* The bytes of the payload that are left at position pos.
PayloadLeft(c, pos) == Max(0, c.size - pos)

-----------------------------------------------------------------------------
(* The input trees of the model *)

InputFile(dir, name, c) == [dir |-> dir, name |-> name, c |-> c]

Menu ==
    << \* 1: decodes to x.mp3, two chunks
       InputFile("root", <<"x", "ncm">>,
                 Container("mp3", ID3, CHUNK_SIZE + 100)),
       \* 2: a passthrough file with the name of the output of 1
       InputFile("root", <<"x", "mp3">>, NoContainer),
       \* 3: a dotted stem; the metadata says mp3, the payload is FLAC
       InputFile("root", <<"a", "b", "ncm">>, Container("mp3", fLaC, 1000)),
       \* 4: in a subdirectory; the first open of the input fails
       InputFile("sub", <<"y", "ncm">>,
                 [Container("none", <<255, 224>>, 1000) EXCEPT !.locked = 1]),
       \* 5: a passthrough file in the subdirectory
       InputFile("sub", <<"z", "txt">>, NoContainer),
       \* 6: not an NCM header
       InputFile("root", <<"bad", "ncm">>,
                 [Container("mp3", ID3, 1000) EXCEPT !.magic = FALSE]),
       \* 7: the metadata blob does not decode
       InputFile("root", <<"m", "ncm">>,
                 [Container("none", ID3, 1000) EXCEPT !.metaOK = FALSE]),
       \* 8: an empty metadata blob
       InputFile("root", <<"n", "ncm">>,
                 [Container("none", ID3, 1000) EXCEPT !.metaLen = 0]),
       \* 9: the image length points past the end of the file
       InputFile("root", <<"i", "ncm">>,
                 [Container("flac", fLaC, 1000) EXCEPT !.imgLen = 100000]),
       \* 10: no payload; the metadata says flac
       InputFile("root", <<"e", "ncm">>, Container("flac", <<>>, 0)),
       \* 11: the key length points past the end of the file
       InputFile("root", <<"k", "ncm">>,
                 [Container("mp3", ID3, 1000) EXCEPT !.keyLen = 100000]),
       \* 12: the metadata length points past the end of the file
       InputFile("root", <<"t", "ncm">>,
                 [Container("mp3", ID3, 1000) EXCEPT !.metaLen = 100000]),
       \* 13: set_audio_metadata raises
       InputFile("root", <<"g", "ncm">>,
                 [Container("flac", fLaC, 1000) EXCEPT !.tagErr = TRUE]),
       \* 14: a passthrough file that cannot be read
       InputFile("root", <<"u", "txt">>,
                 [NoContainer EXCEPT !.locked = 1]),
       \* 15: the file ends inside the header
       InputFile("root", <<"s", "ncm">>,
                 [Container("mp3", ID3, 0) EXCEPT !.size = 12]),
       \* 16: the read of the second chunk fails in the first attempt
       InputFile("root", <<"r", "ncm">>,
                 [Container("mp3", fLaC, CHUNK_SIZE + 100) EXCEPT !.ioErr = 1]),
       \* 17: the read of the second chunk fails in every attempt
       InputFile("root", <<"w", "ncm">>,
                 [Container("flac", fLaC, CHUNK_SIZE + 100)
                     EXCEPT !.ioErr = 5]) >>

\* The files that the trees of more than one file are made of.
Shared == 1..5

\* The number of files of a tree, of workers, and of calls of convert_all.
MaxFiles == 2

MaxWorkers == 2

MaxRuns == 2

Trees ==
    {t \in SUBSET (1..Len(Menu)) : Cardinality(t) <= 1}
        \cup {t \in SUBSET Shared : Cardinality(t) <= MaxFiles}

\* The files of a tree in the order of the menu.
RECURSIVE InOrder(_)
InOrder(t) ==
    IF t = {} THEN <<>>
    ELSE LET lo == CHOOSE x \in t : \A y \in t : x <= y
         IN  <<Menu[lo]>> \o InOrder(t \ {lo})

-----------------------------------------------------------------------------
(* The output tree.  A world is what the jobs read and write: the files of *)
(* the output tree (fs), the kind of the subdirectory (sub), and the       *)
(* locals of every job (job).                                              *)

\* The content of an output file: the job that made it (the call of
\* convert_all and the future's index), what it was made as ("temp",
\* "final" or "copy"), the bytes of payload written to it, and whether
\* tags were written to it.
Content(k, kind) ==
    [run |-> run, src |-> k, kind |-> kind, n |-> 0, tagged |-> FALSE]

\* The file at path is the one job k of this call made.
Mine(w, path, k) ==
    /\ path \in DOMAIN w.fs
    /\ w.fs[path].src = k
    /\ w.fs[path].run = run

IsDir(w, dir) == dir = "root" \/ w.sub = "dir"

\* Path.exists(): False too when a parent is not a directory
Exists(w, path) == IsDir(w, path.dir) /\ path \in DOMAIN w.fs

\* The world with the file at path set to content / removed.
PutFile(w, path, content) ==
    [w EXCEPT !.fs = [q \in (DOMAIN w.fs) \cup {path} |->
                         IF q = path THEN content ELSE w.fs[q]]]

RemoveFile(w, path) ==
    [w EXCEPT !.fs = [q \in (DOMAIN w.fs) \ {path} |-> w.fs[q]]]

\* Path.mkdir(parents=True, exist_ok=True) on the parent of an output path:
\* FileExistsError when a file has the directory's name.
MkdirOk(w, dir) == dir = "root" \/ w.sub # "file"

Mkdir(w, dir) == IF dir = "root" THEN w ELSE [w EXCEPT !.sub = "dir"]

-----------------------------------------------------------------------------
(* The jobs *)

\* The parameter max_retries of _convert_single_file; convert_all leaves
\* it at its default.
max_retries == 5

MAX_CPU_PERCENT == 100

\* What psutil.cpu_percent(1) can return.
CpuPercent == {0, 50, 100}

\* The locals of a job.  result is "pending", "True", "False", "None", or
\* "raised" when the job ended with an exception.
NewJob ==
    [pc |-> "queued", attempt |-> 0, tries |-> 0, raised |-> 0, sleeps |-> 0,
     result |-> "pending", format |-> "mp3", first_chunk |-> TRUE, pos |-> 0]

FileOf(k) == futures[k].file

\* BatchConverter._get_relative_output_path
OutputPath(file) == Path(file.dir, file.name)

SetJob(w, k, fields) == [w EXCEPT !.job[k] = fields]

Return(w, k, result) ==
    [w EXCEPT !.job[k].pc = "done", !.job[k].result = result]

Goto(w, k, label) == [w EXCEPT !.job[k].pc = label]

\* BatchConverter._is_already_converted
IsAlreadyConverted(w, output_path, base_name) ==
    IF overwrite THEN FALSE
    ELSE LET base_path == Path(output_path.dir, base_name)
         IN  \/ Exists(w, Path(base_path.dir, WithSuffix(base_path.name, "mp3")))
             \/ Exists(w, Path(base_path.dir, WithSuffix(base_path.name, "flac")))

\* The paths of decrypt(str(temp_output)) for the container of future k:
\* temp_output is <parent>/<base_name>.mp3.
TempOutput(file) == Path(file.dir, AddSuffix(Stem(file.name), "mp3"))

\* The decoded bytes go straight to the path decrypt was given.
TempPathIsOutput(file) == Path(file.dir, TempOutput(file).name)

TempPath(file) ==
    Path(file.dir, WithSuffix(TempOutput(file).name, "tmp"))

FinalPath(file, format) ==
    Path(file.dir, WithSuffix(TempOutput(file).name, format))

\* The except clause of _convert_single_file: wait and go round again, or
\* give up after the last attempt.
ExceptNoLastCheck(w, k) ==
    LET j == w.job[k]
    IN  IF j.attempt < max_retries
        THEN SetJob(w, k, [j EXCEPT !.raised = @ + 1, !.sleeps = @ + 1,
                                     !.attempt = @ + 1, !.pc = "attempt"])
        ELSE SetJob(w, k, [j EXCEPT !.raised = @ + 1, !.pc = "done",
                                     !.result = "False"])

Except(w, k) ==
    LET j == w.job[k]
    IN  IF j.attempt < max_retries - 1
        THEN SetJob(w, k, [j EXCEPT !.raised = @ + 1, !.sleeps = @ + 1,
                                     !.attempt = @ + 1, !.pc = "attempt"])
        ELSE SetJob(w, k, [j EXCEPT !.raised = @ + 1, !.pc = "done",
                                     !.result = "False"])

\* _convert_single_file, to the first return: the check for an output that
\* is there already.
ConvCheck(w, k) ==
    LET file == FileOf(k)
        base_name == Stem(file.name)
    IN  IF IsAlreadyConverted(w, OutputPath(file), base_name)
        THEN Return(w, k, "None")
        ELSE Goto(w, k, "mkdir")

\* output_path.parent.mkdir(parents=True, exist_ok=True), outside the try:
\* an exception ends the job.
ConvMkdir(w, k) ==
    LET file == FileOf(k)
    IN  IF ~MkdirOk(w, file.dir) THEN Return(w, k, "raised")
        ELSE Goto(Mkdir(w, file.dir), k, "attempt")

\* One pass of the for loop, from the try to the open of the temporary
\* file in decrypt: the CPU loop, the open of the input, the header.
ConvAttempt(w, k) ==
    LET file == FileOf(k)
        j == [w.job[k] EXCEPT !.tries = @ + 1]
        w1 == SetJob(w, k, j)
        header == ParseHeader(file.c)
    IN  IF j.tries <= file.c.locked THEN Except(w1, k)        \* open(input)
        ELSE IF ~header.ok THEN Except(w1, k)
        ELSE IF ~IsDir(w, file.dir) THEN Except(w1, k)        \* open(temp)
        ELSE SetJob(PutFile(w, TempPath(file), Content(k, "temp")), k,
                    [j EXCEPT !.pc = "write", !.pos = header.pos,
                              !.format = MetadataFormat(file.c),
                              !.first_chunk = TRUE])

\* The decoded bytes of the chunk read at pos that the sniffer looks at.
DecodedHead(c, pos, chunk_len) ==
    IF pos = PayloadStart(c) THEN Take(c.head, chunk_len) ELSE <<>>

\* One pass of "while True" that reads a chunk: the format is sniffed on
\* the first one, the bytes go to the temporary file.  A read that fails
\* leaves decrypt, which closes the temporary file as it is.
ConvWrite(w, k) ==
    LET file == FileOf(k)
        j == w.job[k]
        chunk_len == Min(CHUNK_SIZE, PayloadLeft(file.c, j.pos))
        temp == TempPath(file)
        j1 == [j EXCEPT !.pos = @ + chunk_len, !.first_chunk = FALSE,
                        !.format = IF j.first_chunk
                                   THEN DetectAudioFormat(
                                            DecodedHead(file.c, j.pos, chunk_len))
                                   ELSE @]
        w1 == IF Mine(w, temp, k)
              THEN [w EXCEPT !.fs[temp].n = @ + chunk_len]
              ELSE w
    IN  IF ~j.first_chunk /\ j.tries <= file.c.ioErr THEN Except(w, k)
        ELSE SetJob(w1, k, j1)

\* The read that returns nothing ends the loop and closes the temporary
\* file; then "if final_path.exists(): final_path.unlink()".
ConvUnlink(w, k) ==
    LET file == FileOf(k)
        final == FinalPath(file, w.job[k].format)
    IN  Goto(IF Exists(w, final) THEN RemoveFile(w, final) ELSE w, k, "rename")

\* temp_path.rename(final_path): FileNotFoundError when the temporary file
\* is gone.
ConvRename(w, k) ==
    LET file == FileOf(k)
        temp == TempPath(file)
        final == FinalPath(file, w.job[k].format)
    IN  IF ~Exists(w, temp) THEN Except(w, k)
        ELSE Goto(PutFile(RemoveFile(w, temp), final,
                          [w.fs[temp] EXCEPT !.kind = "final"]), k, "tag")

\* "if metadata: set_audio_metadata(final_path, metadata)", "return True".
\* The metadata of a container that decoded is a JSON object with fields.
ConvTag(w, k) ==
    LET file == FileOf(k)
        final == FinalPath(file, w.job[k].format)
    IN  IF file.c.tagErr THEN Except(w, k)
        ELSE Return(IF Exists(w, final)
                    THEN [w EXCEPT !.fs[final].tagged = TRUE]
                    ELSE w, k, "True")

\* _copy_single_file, to the first return; every exception of the function
\* is caught in it and gives False.
CopyCheck(w, k) ==
    LET dst_path == OutputPath(FileOf(k))
    IN  IF Exists(w, dst_path) /\ ~overwrite THEN Return(w, k, "None")
        ELSE Goto(w, k, "cmkdir")

\* dst_path.parent.mkdir(parents=True, exist_ok=True)
CopyMkdir(w, k) ==
    LET file == FileOf(k)
    IN  IF ~MkdirOk(w, file.dir) THEN Return(w, k, "False")
        ELSE Goto(Mkdir(w, file.dir), k, "copy")

\* shutil.copy2(src_path, dst_path), fix_audio_metadata (which catches
\* its exceptions), "return True".
CopyFile(w, k) ==
    LET file == FileOf(k)
        dst_path == OutputPath(file)
    IN  IF file.c.locked > 0 \/ ~IsDir(w, file.dir) THEN Return(w, k, "False")
        ELSE Return(PutFile(w, dst_path, Content(k, "copy")), k, "True")

\* A worker takes the future and calls its function.
StartJob(w, k) ==
    Goto(w, k, IF futures[k].type = "ncm" THEN "check" ELSE "ccheck")

\* The next step of job k.
JobStep(w, k) ==
    CASE w.job[k].pc = "queued" -> StartJob(w, k)
      [] w.job[k].pc = "check"  -> ConvCheck(w, k)
      [] w.job[k].pc = "mkdir"  -> ConvMkdir(w, k)
      [] w.job[k].pc = "attempt" -> ConvAttempt(w, k)
      [] w.job[k].pc = "write" ->
            IF PayloadLeft(FileOf(k).c, w.job[k].pos) > 0
            THEN ConvWrite(w, k) ELSE ConvUnlink(w, k)
      [] w.job[k].pc = "rename" -> ConvRename(w, k)
      [] w.job[k].pc = "tag"    -> ConvTag(w, k)
      [] w.job[k].pc = "ccheck" -> CopyCheck(w, k)
      [] w.job[k].pc = "cmkdir" -> CopyMkdir(w, k)
      [] w.job[k].pc = "copy"   -> CopyFile(w, k)
      [] OTHER -> w

-----------------------------------------------------------------------------
(* convert_all *)

ZeroStats ==
    [ncm_success |-> 0, ncm_failed |-> 0, ncm_skipped |-> 0,
     copy_success |-> 0, copy_failed |-> 0, copy_skipped |-> 0]

\* _collect_all_files: file_path.suffix.lower() == ".ncm"
IsNcm(file) == Lower(Suffix(file.name)) = "ncm"

IsOther(file) == ~IsNcm(file)

\* The futures of a call: the containers first, then the other files.
Submitted(fileSeq) ==
    LET ncm_files == SelectSeq(fileSeq, IsNcm)
        other_files == SelectSeq(fileSeq, IsOther)
    IN  [k \in 1..Len(ncm_files) |-> [type |-> "ncm", file |-> ncm_files[k]]]
        \o [k \in 1..Len(other_files) |-> [type |-> "copy", file |-> other_files[k]]]

\* The loop over the results without its two else branches.
CountDropsSkipped(st, type, result) ==
    IF type = "ncm"
    THEN IF result = "True" THEN [st EXCEPT !.ncm_success = @ + 1]
         ELSE IF result = "False" THEN [st EXCEPT !.ncm_failed = @ + 1]
         ELSE st
    ELSE IF result = "True" THEN [st EXCEPT !.copy_success = @ + 1]
         ELSE IF result = "False" THEN [st EXCEPT !.copy_failed = @ + 1]
         ELSE st

\* One pass of the loop over the results: "is True", "is False", else.
Count(st, type, result) ==
    IF type = "ncm"
    THEN IF result = "True" THEN [st EXCEPT !.ncm_success = @ + 1]
         ELSE IF result = "False" THEN [st EXCEPT !.ncm_failed = @ + 1]
         ELSE [st EXCEPT !.ncm_skipped = @ + 1]
    ELSE IF result = "True" THEN [st EXCEPT !.copy_success = @ + 1]
         ELSE IF result = "False" THEN [st EXCEPT !.copy_failed = @ + 1]
         ELSE [st EXCEPT !.copy_skipped = @ + 1]

World == [fs |-> fs, sub |-> sub, job |-> job]

Apply(w) ==
    /\ fs' = w.fs
    /\ sub' = w.sub
    /\ job' = w.job

Running == {k \in DOMAIN job : job[k].pc \notin {"queued", "done"}}

\* wait(..., return_when=FIRST_COMPLETED)
FirstDone == \E k \in DOMAIN job : job[k].pc = "done"

\* wait(futures): every future is done
AllDone == \A k \in DOMAIN job : job[k].pc = "done"

BatchIdle ==
    /\ files = <<>>
    /\ overwrite = FALSE
    /\ max_workers = 1
    /\ run = 0
    /\ pc = "off"
    /\ futures = <<>>
    /\ queue = <<>>
    /\ job = <<>>
    /\ fs = <<>>
    /\ sub = "absent"
    /\ stats = ZeroStats
    /\ tallied = 0
    /\ fs0 = <<>>
    /\ sub0 = "absent"
    /\ stats1 = ZeroStats

\* After BatchConverter.__init__ (which makes the output directory), for
\* every tree, setting and pool size of the model.  The output tree is
\* empty but for the subdirectory's name, which a file may have.
Init ==
    /\ files \in {InOrder(t) : t \in Trees}
    /\ overwrite \in BOOLEAN
    /\ max_workers \in 1..MaxWorkers
    /\ run = 0
    /\ pc = "idle"
    /\ futures = <<>>
    /\ queue = <<>>
    /\ job = <<>>
    /\ fs = <<>>
    /\ sub \in {"absent", "file"}
    /\ stats = ZeroStats
    /\ tallied = 0
    /\ fs0 = <<>>
    /\ sub0 = sub
    /\ stats1 = ZeroStats
    /\ KeyBoxIdle
    /\ StreamIdle

\* convert_all, to the wait: the files are collected and every job is
\* submitted.  Without files it returns at once.
ConvertAll ==
    /\ pc \in {"idle", "returned"}
    /\ run < MaxRuns
    /\ run' = run + 1
    /\ stats1' = IF run = 1 THEN stats ELSE stats1
    /\ fs0' = fs
    /\ sub0' = sub
    /\ stats' = ZeroStats
    /\ tallied' = 0
    /\ IF Len(files) = 0
       THEN /\ pc' = "returned"
            /\ futures' = <<>>
            /\ queue' = <<>>
            /\ job' = <<>>
       ELSE /\ pc' = "wait"
            /\ futures' = Submitted(files)
            /\ queue' = [k \in 1..Len(files) |-> k]
            /\ job' = [k \in 1..Len(files) |-> NewJob]
    /\ UNCHANGED <<files, overwrite, max_workers, fs, sub, kbVars, stVars>>

Frame == UNCHANGED <<files, overwrite, max_workers, run, pc, futures,
                     stats, tallied, fs0, sub0, stats1, kbVars, stVars>>

\* A free worker of the pool takes the oldest future.
WorkerStart ==
    /\ pc = "wait"
    /\ queue # <<>>
    /\ Cardinality(Running) < max_workers
    /\ Apply(StartJob(World, Head(queue)))
    /\ queue' = Tail(queue)
    /\ Frame

At(k, label) == pc = "wait" /\ job[k].pc = label

Check(k) ==
    /\ At(k, "check")
    /\ Apply(ConvCheck(World, k))
    /\ UNCHANGED queue /\ Frame

MakeDir(k) ==
    /\ At(k, "mkdir")
    /\ Apply(ConvMkdir(World, k))
    /\ UNCHANGED queue /\ Frame

\* "while psutil.cpu_percent(1) > MAX_CPU_PERCENT: time.sleep(0.5)" ends
\* on a sample that is not above the limit.
Attempt(k) ==
    /\ At(k, "attempt")
    /\ \E cpu \in CpuPercent : ~(cpu > MAX_CPU_PERCENT)
    /\ Apply(ConvAttempt(World, k))
    /\ UNCHANGED queue /\ Frame

WriteChunk(k) ==
    /\ At(k, "write")
    /\ PayloadLeft(FileOf(k).c, job[k].pos) > 0
    /\ Apply(ConvWrite(World, k))
    /\ UNCHANGED queue /\ Frame

Unlink(k) ==
    /\ At(k, "write")
    /\ PayloadLeft(FileOf(k).c, job[k].pos) = 0
    /\ Apply(ConvUnlink(World, k))
    /\ UNCHANGED queue /\ Frame

Rename(k) ==
    /\ At(k, "rename")
    /\ Apply(ConvRename(World, k))
    /\ UNCHANGED queue /\ Frame

SetMetadata(k) ==
    /\ At(k, "tag")
    /\ Apply(ConvTag(World, k))
    /\ UNCHANGED queue /\ Frame

CopyExists(k) ==
    /\ At(k, "ccheck")
    /\ Apply(CopyCheck(World, k))
    /\ UNCHANGED queue /\ Frame

CopyMakeDir(k) ==
    /\ At(k, "cmkdir")
    /\ Apply(CopyMkdir(World, k))
    /\ UNCHANGED queue /\ Frame

Copy(k) ==
    /\ At(k, "copy")
    /\ Apply(CopyFile(World, k))
    /\ UNCHANGED queue /\ Frame

\* After wait(): one pass of "for file_type, future in futures".
\* future.result() raises what the job raised; after the last pass
\* convert_all returns stats.
Tally ==
    /\ pc = "wait"
    /\ AllDone
    /\ tallied < Len(futures)
    /\ LET k == tallied + 1
       IN  IF job[k].result = "raised"
           THEN /\ pc' = "raised"
                /\ UNCHANGED <<stats, tallied>>
           ELSE /\ stats' = Count(stats, futures[k].type, job[k].result)
                /\ tallied' = k
                /\ pc' = IF k = Len(futures) THEN "returned" ELSE "wait"
    /\ UNCHANGED <<files, overwrite, max_workers, run, futures, queue, job,
                   fs, sub, fs0, sub0, stats1, kbVars, stVars>>

Next ==
    \/ ConvertAll
    \/ WorkerStart
    \/ \E k \in DOMAIN job : Check(k)
    \/ \E k \in DOMAIN job : MakeDir(k)
    \/ \E k \in DOMAIN job : Attempt(k)
    \/ \E k \in DOMAIN job : WriteChunk(k)
    \/ \E k \in DOMAIN job : Unlink(k)
    \/ \E k \in DOMAIN job : Rename(k)
    \/ \E k \in DOMAIN job : SetMetadata(k)
    \/ \E k \in DOMAIN job : CopyExists(k)
    \/ \E k \in DOMAIN job : CopyMakeDir(k)
    \/ \E k \in DOMAIN job : Copy(k)
    \/ Tally

-----------------------------------------------------------------------------
(* The same jobs one at a time, in submission order *)

RECURSIVE RunJob(_, _)
RunJob(w, k) ==
    IF w.job[k].pc = "done" THEN w ELSE RunJob(JobStep(w, k), k)

RECURSIVE RunJobs(_, _)
RunJobs(w, k) ==
    IF k > Len(futures) THEN w ELSE RunJobs(RunJob(w, k), k + 1)

RECURSIVE CountFrom(_, _, _)
CountFrom(st, jobs, k) ==
    IF k > Len(futures) THEN st
    ELSE CountFrom(Count(st, futures[k].type, jobs[k].result), jobs, k + 1)

\* What convert_all returns when the jobs of the current call run one
\* after the other from the output tree the call began with.
SequentialStats ==
    CountFrom(ZeroStats,
              RunJobs([fs |-> fs0, sub |-> sub0,
                       job |-> [k \in 1..Len(futures) |-> NewJob]], 1).job,
              1)

-----------------------------------------------------------------------------
(* Specifications *)

\* The key schedule alone: the stream and the batch stay as constructed.
KeyBoxInit == InitKeyBox /\ StreamIdle /\ BatchIdle

SpecKeyBox == KeyBoxInit /\ [][NextKeyBox]_vars

\* The decode loop alone: the key schedule and the batch stay as constructed.
StreamInit == InitStream /\ KeyBoxIdle /\ BatchIdle

SpecStream == StreamInit /\ [][NextStream]_vars

Spec == Init /\ [][Next]_vars

-----------------------------------------------------------------------------
(* C7: the key box is a permutation of 0..255 after every iteration of     *)
(* the loop of _build_key_box, and so when the function returns, for       *)
(* every non-empty key blob.                                               *)
KeyBoxAlwaysPermutation ==
    (key_data # <<>>) => IsPermutation(key_box)

\* The loop has run to its end and has moved entries of the box.
KeyBoxBuilt ==
    /\ key_data # <<>>
    /\ i = BoxSize
    /\ key_box # IdentityBox
    /\ key_box = BuildKeyBox(key_data)

-----------------------------------------------------------------------------
(* C8: the decryption loop undoes the keystream: every byte written is     *)
(* the payload byte at the same offset XORed with base-mask byte           *)
(* offset mod 256, in order, and when the loop ends the bytes written are  *)
(* the plaintext, for the payload lengths 0, 1, 255, 256, 257, one chunk   *)
(* and one chunk plus a part of a chunk.                                   *)
StreamRoundTrip ==
    (st_pc # "idle") =>
        /\ st_pc # "raised"
        /\ out = Take(plain, Len(out))
        /\ Len(out) = f_pos
        /\ (st_pc = "closed" => out = plain)

\* A payload of more than one chunk has been decoded to its end.
StreamTwoChunksDone ==
    /\ st_pc = "closed"
    /\ Len(plain) > CHUNK_SIZE
    /\ out = plain
    /\ payload # plain

-----------------------------------------------------------------------------
(* Claims about the batch *)

Containers == {k \in DOMAIN job : futures[k].type = "ncm"}

Done(k) == job[k].pc = "done"

\* Job k has made attempts and every one of them ended in the except
\* clause.
EveryAttemptRaised(k) == job[k].tries > 0 /\ job[k].raised = job[k].tries

(* C1: a container job that is not skipped and whose attempts all raise    *)
(* is attempted max_retries times and no more, waits once between two      *)
(* attempts and not after the last, and returns False, never True or None. *)
RetryBudget ==
    \A k \in Containers :
        /\ job[k].tries <= max_retries
        /\ EveryAttemptRaised(k) =>
              /\ job[k].result \in {"pending", "False"}
              /\ Done(k) => /\ job[k].result = "False"
                            /\ job[k].tries = max_retries
                            /\ job[k].sleeps = max_retries - 1
              /\ ~Done(k) => job[k].sleeps = job[k].tries

\* A job whose decode raised every time has given up.
RetryBudgetSpent ==
    \E k \in Containers :
        /\ Done(k)
        /\ ~ParseHeader(FileOf(k).c).ok
        /\ EveryAttemptRaised(k)
        /\ job[k].tries = max_retries
        /\ job[k].result = "False"

(* C2: whatever step of a job fails, no exception of a job reaches         *)
(* convert_all: the call does not end with an exception and every job      *)
(* ends with a result that is counted.                                     *)
NoJobErrorEscapes == pc # "raised"

(* C3: a second call of convert_all over the same tree with overwrite off, *)
(* after a first call in which no container failed, decodes nothing and    *)
(* skips every container.                                                  *)
SecondRunSkipsAll ==
    (run = 2 /\ pc = "returned" /\ ~overwrite /\ stats1.ncm_failed = 0) =>
        /\ stats.ncm_success = 0
        /\ stats.ncm_skipped = Cardinality(Containers)

(* C4: when convert_all returns, its six counters are those of the same    *)
(* jobs run one at a time in submission order, whatever the pool size and  *)
(* the interleaving.                                                       *)
StatsAsSequential ==
    (pc = "returned" /\ futures # <<>>) => stats = SequentialStats

\* The container has a good header and key and every length field within
\* the file, and its metadata blob does not decode.
OnlyMetadataBad(c) ==
    /\ c.magic
    /\ c.locked = 0
    /\ PayloadStart(c) <= c.size
    /\ ReadKeyData(c, 8).ok
    /\ ~ReadMetadata(c, ReadKeyData(c, 8).pos).ok

(* C5: a container whose only fault is a metadata blob that does not       *)
(* decode is decoded all the same: its job ends with True.                 *)
MetadataFailureNotFatal ==
    \A k \in Containers :
        (Done(k) /\ OnlyMetadataBad(FileOf(k).c)
                 /\ job[k].result \notin {"None", "raised"}) =>
            job[k].result = "True"

(* C6: a container without the NCM header is given one attempt and no      *)
(* wait, fails, and gets no temporary or final output file.                *)
BadMagicFailsAtOnce ==
    \A k \in Containers :
        ~FileOf(k).c.magic =>
            /\ job[k].tries <= 1
            /\ job[k].sleeps = 0
            /\ job[k].result \in {"pending", "False", "None", "raised"}
            /\ \A path \in DOMAIN fs : ~Mine(World, path, k)

\* The chunk the sniffer is given: the first min(CHUNK_SIZE, payload)
\* decoded bytes, as far as the sniffer reads them.
FirstDecodedChunk(c) ==
    LET header == ParseHeader(c)
    IN  DecodedHead(c, header.pos, Min(CHUNK_SIZE, PayloadLeft(c, header.pos)))

(* C9: the extension of the output of a container that decoded is what     *)
(* the sniffer makes of the first decoded chunk, an empty one too; the     *)
(* metadata's format never decides it.                                     *)
ExtensionIsSniffed ==
    \A k \in Containers :
        job[k].result = "True" =>
            job[k].format = DetectAudioFormat(FirstDecodedChunk(FileOf(k).c))

\* One of the three length fields asks for more bytes than the file has
\* left where the field's data starts.
LengthPastEnd(c) ==
    \/ 8 + 2 + 4 + c.keyLen > c.size
    \/ 8 + 2 + 4 + c.keyLen + 4 + c.metaLen > c.size
    \/ PayloadStart(c) > c.size

(* C10: a container with a length field that points past the end of the    *)
(* file never ends with True.                                              *)
TruncatedNeverSucceeds ==
    \A k \in Containers :
        LengthPastEnd(FileOf(k).c) => job[k].result # "True"

\* The payload that decrypt reads from the container of future k of a
\* call: the bytes from the position the header leaves it at to the end.
CompletePayload(k) ==
    LET c == Submitted(files)[k].file.c
    IN  PayloadLeft(c, ParseHeader(c).pos)

(* C11: a decode puts its bytes in the temporary .tmp file only, and the   *)
(* file it leaves at a final path (an extension other than .tmp) is the    *)
(* complete decoded payload, put there by the rename after the last        *)
(* chunk: no state has a partly decoded file at a final path, whatever     *)
(* step of a decode fails.                                                 *)
NoPartialFinalOutput ==
    \A path \in DOMAIN fs :
        /\ fs[path].kind = "temp" => Suffix(path.name) = "tmp"
        /\ fs[path].kind = "final" =>
              /\ Suffix(path.name) \in {"mp3", "flac"}
              /\ fs[path].n = CompletePayload(fs[path].src)

\* A decode has failed in every attempt after its first chunk: the job
\* has ended with False, its temporary file holds a part of the payload,
\* and no file of the job is at another path.
FailedDecodeLeftTemp ==
    \E k \in Containers :
        /\ Done(k) /\ job[k].result = "False"
        /\ FileOf(k).c.ioErr > 0
        /\ Mine(World, TempPath(FileOf(k)), k)
        /\ fs[TempPath(FileOf(k))].n > 0
        /\ fs[TempPath(FileOf(k))].n < CompletePayload(k)
        /\ \A path \in DOMAIN fs :
              Mine(World, path, k) => path = TempPath(FileOf(k))

Passthroughs == {k \in DOMAIN job : futures[k].type = "copy"}

\* The number of the jobs of a set that ended with a result.
Ended(jobs, result) == Cardinality({k \in jobs : job[k].result = result})

(* C12: every pass of the loop over the results adds one to one counter,   *)
(* and when convert_all returns each of the six counters is the number of  *)
(* jobs of its category with its outcome: the three ncm counters add up    *)
(* to the number of container files found and the three copy counters to   *)
(* the number of other files found, however many attempts a job made.      *)
EachJobCountedOnce ==
    /\ stats.ncm_success + stats.ncm_failed + stats.ncm_skipped
           + stats.copy_success + stats.copy_failed + stats.copy_skipped
         = tallied
    /\ pc = "returned" =>
          /\ stats.ncm_success = Ended(Containers, "True")
          /\ stats.ncm_failed = Ended(Containers, "False")
          /\ stats.ncm_skipped = Ended(Containers, "None")
          /\ stats.copy_success = Ended(Passthroughs, "True")
          /\ stats.copy_failed = Ended(Passthroughs, "False")
          /\ stats.copy_skipped = Ended(Passthroughs, "None")
          /\ stats.ncm_success + stats.ncm_failed + stats.ncm_skipped
                = Len(SelectSeq(files, IsNcm))
          /\ stats.copy_success + stats.copy_failed + stats.copy_skipped
                = Len(SelectSeq(files, IsOther))

\* convert_all has returned the counts of a container that decoded in its
\* second attempt and of a passthrough file.
CountedAfterRetry ==
    /\ pc = "returned"
    /\ \E k \in Containers :
          job[k].tries > 1 /\ job[k].result = "True"
    /\ Passthroughs # {}
    /\ stats.ncm_success = 1
    /\ stats.copy_success + stats.copy_failed + stats.copy_skipped = 1

\* The paths of the output tree that job k, where it is, is to write,
\* remove or rename before it ends: a decode its temporary file from the
\* open to the rename and its final path once the format is sniffed (the
\* unlink, the rename, the tags), a copy its destination.
PathsInUse(k) ==
    LET file == FileOf(k)
        j == job[k]
    IN  IF futures[k].type = "copy"
        THEN IF j.pc \in {"cmkdir", "copy"} THEN {OutputPath(file)} ELSE {}
        ELSE (IF j.pc \in {"write", "rename"} THEN {TempPath(file)} ELSE {})
             \cup (IF (j.pc = "write" /\ ~j.first_chunk)
                      \/ j.pc \in {"rename", "tag"}
                   THEN {FinalPath(file, j.format)} ELSE {})

(* C13: no two jobs that are running at the same time have a path of the   *)
(* output tree in common that both are to write, remove or rename, for     *)
(* every tree of distinct input files.                                     *)
NoTwoJobsOnOnePath ==
    \A k1, k2 \in Running :
        k1 # k2 => PathsInUse(k1) \cap PathsInUse(k2) = {}

(* C14: while a job of the call is queued or running no counter has been   *)
(* changed and no result has been read: the counters leave zero only       *)
(* after every submitted job has ended, and no step of a worker changes    *)
(* them.                                                                   *)
CountAfterBarrier ==
    /\ (stats # ZeroStats \/ tallied > 0) => \A k \in DOMAIN job : Done(k)
    /\ (\E k \in DOMAIN job : ~Done(k)) => pc = "wait"
    /\ tallied = 0 => stats = ZeroStats

\* The loop over the results is under way after two workers ran two jobs
\* to their ends.
TallyUnderWay ==
    /\ pc = "wait"
    /\ max_workers = 2
    /\ Len(futures) = 2
    /\ \A k \in DOMAIN job : Done(k) /\ job[k].result = "True"
    /\ tallied = 1
    /\ stats # ZeroStats

\* When the call began the output tree had an output of job k: a file
\* with the container's base name and .mp3 or .flac, or the destination
\* of the passthrough file.
OutputWasThere(k) ==
    LET file == FileOf(k)
        w0 == [fs |-> fs0, sub |-> sub0, job |-> job]
    IN  IF futures[k].type = "ncm"
        THEN \/ Exists(w0, Path(file.dir, AddSuffix(Stem(file.name), "mp3")))
             \/ Exists(w0, Path(file.dir, AddSuffix(Stem(file.name), "flac")))
        ELSE Exists(w0, OutputPath(file))

\* A skipped job made no attempt and no file, and a call in which every
\* job was skipped left the output tree as it was.
SkippedDidNothing ==
    /\ \A k \in DOMAIN job :
          job[k].result = "None" =>
              /\ job[k].tries = 0
              /\ \A path \in DOMAIN fs : ~Mine(World, path, k)
    /\ (job # <<>> /\ \A k \in DOMAIN job : job[k].result = "None") =>
          fs = fs0 /\ sub = sub0

NoSkipOnOverwrite ==
    overwrite => \A k \in DOMAIN job : job[k].result # "None"

(* C15: with overwrite off a job whose output is there already ends        *)
(* Skipped, and a job that ends Skipped has made no attempt and has left   *)
(* the output tree as it was; with overwrite on no job ends Skipped.        *)
SkipIfOutputExists ==
    /\ SkippedDidNothing
    /\ NoSkipOnOverwrite
    /\ \A k \in DOMAIN job :
          (~overwrite /\ OutputWasThere(k) /\ Done(k)) =>
              job[k].result = "None"

\* The same, for containers whose stem has no dot.
SkipIfOutputExistsPlain ==
    \A k \in DOMAIN job :
        (~overwrite /\ OutputWasThere(k) /\ Done(k)
                    /\ Len(Stem(FileOf(k).name)) = 1) =>
            job[k].result = "None"

=============================================================================
